---- MODULE Spec2Model ----
(***************************************************************************)
(* casa-mais-perto-server: the HTTP handlers of src/src/server.ts over the *)
(* relational store declared by the Prisma schema (User, Property, Image). *)
(*                                                                         *)
(* server.ts holds two revisions of the service (lines 1-413 and 415-699). *)
(* A behaviour runs one of them: rev is chosen in Init and never changes.  *)
(*                                                                         *)
(* A handler is a sequence of steps separated by its awaits on the store.  *)
(* Each store call is one atomic step; the synchronous code around it      *)
(* (validation, bcrypt, building the reply) is local to the request and is *)
(* folded into the step of the store call that follows or precedes it.     *)
(* Store calls fail only where the schema makes them fail (unique index,   *)
(* foreign key, record to delete not found); a lost connection is not      *)
(* modelled.                                                               *)
(*                                                                         *)
(* req[c] is the request client c has in flight (its handler, its input,   *)
(* the await it is suspended at, its local variables); reply is the last   *)
(* response the server has sent, with the request it answers.              *)
(***************************************************************************)
EXTENDS Integers, Sequences, FiniteSets, TLC

VARIABLES rev, users, properties, images, nextUserId, nextPropertyId, req, reply

vars == <<rev, users, properties, images, nextUserId, nextPropertyId, req, reply>>
store == <<users, properties, images, nextUserId, nextPropertyId>>

(***************************************************************************)
(* Bounds of the model.                                                    *)
(***************************************************************************)
NumClients == 2        \* requests that can be in flight at the same time
MaxPropertyId == 3     \* POST /property is not started once the Property
                       \* autoincrement counter has passed this id
NumSalts == 1          \* salts bcrypt.hash can draw

Clients == 1..NumClients
Salts == 1..NumSalts

(***************************************************************************)
(* Program constants.                                                      *)
(***************************************************************************)
UsernameMin == 3
UsernameMax == 30
PasswordMin == 6
SaltRounds == 10

(***************************************************************************)
(* Input universes: the strings and numbers clients send.                  *)
(***************************************************************************)
UsernameInputs == {"ana", "bob@x.com"}
EmailInputs == {"ana@x.com", "bob@x.com"}
NameInputs == {"Ana"}
UserIdInputs == {1, 2}
IdParams == {"1", "2", "3", "abc"}
UserIdQueries == {<<>>, <<"">>, <<"abc">>, <<"1">>, <<"2">>}
UrlA == "http://img/a.png"
UrlB == "http://img/b.png"
UrlC == "http://img/c.png"
TempPasswords == {"k3x9q2ab"}
IdTokens == {"tok-ana", "tok-bob", "tok-nopayload", "tok-bad"}

(***************************************************************************)
(* JavaScript Number(x) and isNaN on the raw strings above.  A number is   *)
(* [nan, val]; Number(undefined) and Number("abc") are NaN, Number("") is  *)
(* 0.  A missing query parameter is the empty tuple, a present one a       *)
(* one-element tuple.                                                      *)
(***************************************************************************)
NaN == [nan |-> TRUE, val |-> 0]
Num(n) == [nan |-> FALSE, val |-> n]

Number(s) ==
  CASE s = "" -> Num(0)
    [] s = "1" -> Num(1)
    [] s = "2" -> Num(2)
    [] s = "3" -> Num(3)
    [] OTHER -> NaN

NumberOfQuery(q) == IF q = <<>> THEN NaN ELSE Number(q[1])

isNaN(x) == x.nan

(***************************************************************************)
(* Joi schemas.  Joi.string() refuses the empty string; .email() is given  *)
(* as the set of the input strings that have the shape of an address.      *)
(* Joi.object() refuses a key the schema does not list and a required key  *)
(* that is absent, so a body is valid only if its keys are exactly the     *)
(* schema's.                                                               *)
(***************************************************************************)
EmailShaped == {"ana@x.com", "bob@x.com"}

JoiString(s) == s # ""

registerSchema(r, b) ==
  /\ DOMAIN b = {"name", "email", "username", "password"}
  /\ JoiString(b.name)
  /\ JoiString(b.email)
  /\ (r = 2 => b.email \in EmailShaped)
  /\ JoiString(b.username)
  /\ Len(b.username) >= UsernameMin
  /\ Len(b.username) <= UsernameMax
  /\ JoiString(b.password)
  /\ Len(b.password) >= PasswordMin

loginSchema(b) ==
  /\ DOMAIN b = {"username", "password"}
  /\ JoiString(b.username)
  /\ Len(b.username) >= UsernameMin
  /\ Len(b.username) <= UsernameMax
  /\ JoiString(b.password)
  /\ Len(b.password) >= PasswordMin

PropertyKeys == {"title", "description", "price", "latitude", "longitude", "userId"}

propertySchema(b) ==
  /\ DOMAIN b = PropertyKeys
  /\ JoiString(b.title)
  /\ JoiString(b.description)

(***************************************************************************)
(* bcrypt.  A digest records the salt and cost it was made with and stands *)
(* for the hash of the plaintext under them; compare recomputes the hash   *)
(* with the digest's salt.                                                 *)
(***************************************************************************)
bcryptHash(p, salt) == [cost |-> SaltRounds, salt |-> salt, of |-> p]

bcryptCompare(p, digest) == digest.of = p

(***************************************************************************)
(* The store.                                                              *)
(***************************************************************************)
UserRow(id, name, email, username, password, picture) ==
  [id |-> id, name |-> name, email |-> email, username |-> username,
   password |-> password, picture |-> picture]

findUserByUsername(username) == {u \in users : u.username = username}
findUserByEmail(email) == {u \in users : u.email = email}
findUserById(id) == {u \in users : u.id = id}

\* Mutant: the index on email is missing (as in the migration that first
\* created the User table).
UserUniqueViolationUsernameOnly(row) ==
  \E u \in users : u.username = row.username

\* The unique indexes User_email_key and User_username_key.
UserUniqueViolation(row) ==
  \E u \in users : u.email = row.email \/ u.username = row.username

WithImages(p) ==
  [id |-> p.id, title |-> p.title, description |-> p.description,
   price |-> p.price, latitude |-> p.latitude, longitude |-> p.longitude,
   userId |-> p.userId, images |-> {i \in images : i.propertyId = p.id}]

findPropertyById(id) == {p \in properties : p.id = id}
findPropertiesByUser(uid) == {WithImages(p) : p \in {q \in properties : q.userId = uid}}
findAllProperties == {WithImages(p) : p \in properties}

\* Property_userId_fkey and Image_propertyId_fkey, ON DELETE RESTRICT.
PropertyFkViolation(row) == findUserById(row.userId) = {}
PropertyDeleteRestricted(id) == \E i \in images : i.propertyId = id

(***************************************************************************)
(* Requests and replies.                                                   *)
(***************************************************************************)
NoBody == [error |-> "", message |-> "", user |-> {}, property |-> {}, properties |-> {}]
NoArgs == [nil |-> TRUE]
Idle == [op |-> "none", pc |-> "idle", in |-> NoArgs, loc |-> NoArgs]
NoReply == [op |-> "none", in |-> NoArgs, status |-> 0, body |-> NoBody]

Free(c) == req[c].pc = "idle"

\* request.body / params / query arrive and the handler runs to its next await.
Begin(c, op, in, pc, loc) ==
  /\ req' = [req EXCEPT ![c] = [op |-> op, pc |-> pc, in |-> in, loc |-> loc]]
  /\ UNCHANGED reply

\* reply.status(status).send(body) before the handler has awaited anything
\* it resumes from.
BeginReply(c, op, in, status, body) ==
  /\ reply' = [op |-> op, in |-> in, status |-> status, body |-> body]
  /\ UNCHANGED req

\* reply.status(status).send(body) from a later step.
Reply(c, status, body) ==
  /\ reply' = [op |-> req[c].op, in |-> req[c].in, status |-> status, body |-> body]
  /\ req' = [req EXCEPT ![c] = Idle]

Goto(c, pc) ==
  /\ req' = [req EXCEPT ![c] = [@ EXCEPT !.pc = pc]]
  /\ UNCHANGED reply

ErrorBody(msg) == [NoBody EXCEPT !.error = msg]
MessageBody(msg) == [NoBody EXCEPT !.message = msg]

(***************************************************************************)
(* POST /users                                                             *)
(***************************************************************************)
RegisterBody(name, email, username, password) ==
  [name |-> name, email |-> email, username |-> username, password |-> password]

\* Bodies the schemas accept, and three they refuse (a username of two
\* characters, a password of three, and an email without "@", which only
\* revision 2 refuses).
RegisterBodies ==
  [name : NameInputs, email : EmailInputs, username : UsernameInputs,
   password : {"secret1"}]
  \cup {RegisterBody("Ana", "ana@x.com", "ab", "secret1"),
        RegisterBody("Ana", "ana@x.com", "ana", "123"),
        RegisterBody("Ana", "nomail", "ana", "secret1")}

\* The user the handler sends back: the row prisma.user.create returned.
UserReply(row) == [NoBody EXCEPT !.user = {row}]

PostUsersStart(c, bodies) ==
  /\ Free(c)
  /\ \E b \in bodies :
       IF ~registerSchema(rev, b)
         THEN BeginReply(c, "POST /users", b, 400, ErrorBody("validation"))
       ELSE IF findUserByUsername(b.username) # {}
         THEN BeginReply(c, "POST /users", b, 409, ErrorBody("Username ja utilizado"))
       ELSE Begin(c, "POST /users", b, IF rev = 1 THEN "findEmail" ELSE "create", NoArgs)
  /\ UNCHANGED <<rev, store>>

PostUsersFindEmail(c) ==
  /\ req[c].op = "POST /users"
  /\ req[c].pc = "findEmail"
  /\ IF findUserByEmail(req[c].in.email) # {}
       THEN Reply(c, 409, ErrorBody("E-mail ja utilizado"))
       ELSE Goto(c, "create")
  /\ UNCHANGED <<rev, store>>

PostUsersCreate(c) ==
  /\ req[c].op = "POST /users"
  /\ req[c].pc = "create"
  /\ \E salt \in Salts :
       LET b == req[c].in
           row == UserRow(nextUserId, b.name, b.email, b.username,
                          bcryptHash(b.password, salt), "")
       IN IF UserUniqueViolation(row)
            THEN /\ Reply(c, 500, ErrorBody("Failed to create user"))
                 /\ UNCHANGED <<users, nextUserId>>
            ELSE /\ users' = users \cup {row}
                 /\ nextUserId' = nextUserId + 1
                 /\ Reply(c, 201, UserReply(row))
  /\ UNCHANGED <<rev, properties, images, nextPropertyId>>

(***************************************************************************)
(* POST /session                                                           *)
(***************************************************************************)
LoginBodies ==
  [username : UsernameInputs, password : {"secret1", "secret2"}]
  \cup {[username |-> "ab", password |-> "secret1"],
        [username |-> "ana", password |-> "123"]}

\* The operand of ! in the password test.  Revision 1 negates the Promise
\* bcrypt.compare returns, which is an object and so truthy whatever it
\* resolves to; revision 2 awaits it.
PasswordTest(r, p, digest) == IF r = 1 THEN TRUE ELSE bcryptCompare(p, digest)

SessionReply(row) == [NoBody EXCEPT !.message = "Login successful", !.user = {row}]

PostSession(c) ==
  /\ Free(c)
  /\ \E b \in LoginBodies :
       IF ~loginSchema(b)
         THEN BeginReply(c, "POST /session", b, 400, ErrorBody("validation"))
       ELSE LET found == findUserByUsername(b.username)
            IN IF found = {} \/ \A u \in found : ~PasswordTest(rev, b.password, u.password)
                 THEN BeginReply(c, "POST /session", b, 401,
                                 ErrorBody("Invalid username or password"))
                 ELSE BeginReply(c, "POST /session", b, 200,
                                 SessionReply(CHOOSE u \in found : TRUE))
  /\ UNCHANGED <<rev, store>>

(***************************************************************************)
(* GET /users/:id (revision 1)                                             *)
(***************************************************************************)
GetUserReply(row) == [NoBody EXCEPT !.user = {row}]

GetUser(c) ==
  /\ rev = 1
  /\ Free(c)
  /\ \E id \in IdParams :
       LET userId == Number(id)
           in == [id |-> id]
       IN IF isNaN(userId)
            THEN BeginReply(c, "GET /users/:id", in, 400, ErrorBody("Invalid userId"))
          ELSE IF findUserById(userId.val) = {}
            THEN BeginReply(c, "GET /users/:id", in, 404, ErrorBody("Usuario nao encontrado"))
          ELSE BeginReply(c, "GET /users/:id", in, 200,
                          GetUserReply(CHOOSE u \in findUserById(userId.val) : TRUE))
  /\ UNCHANGED <<rev, store>>

(***************************************************************************)
(* POST /google-login (revision 2)                                         *)
(*                                                                         *)
(* verifyIdToken is a call out of the program.  What it answers for a      *)
(* token is not decided by this repository: it throws, or yields a ticket  *)
(* without payload, or a ticket whose payload names an account.  (As       *)
(* written the call is made on the class google.auth.OAuth2 and not on the *)
(* client built at line 426; the throwing outcome covers that.)            *)
(* A reply to this handler is recorded with the token and with what the    *)
(* verifier answered for it.                                               *)
(***************************************************************************)
Payload(email, name) == [email |-> email, name |-> name, picture |-> "http://img/me.png"]

VerifyOutcomes(id_token) ==
  CASE id_token = "tok-ana" -> {[kind |-> "payload", payload |-> Payload("ana@x.com", "Ana")],
                                [kind |-> "throws", payload |-> Payload("", "")]}
    [] id_token = "tok-bob" -> {[kind |-> "payload", payload |-> Payload("bob@x.com", "Bob")],
                                [kind |-> "throws", payload |-> Payload("", "")]}
    [] id_token = "tok-nopayload" -> {[kind |-> "nopayload", payload |-> Payload("", "")],
                                      [kind |-> "throws", payload |-> Payload("", "")]}
    [] OTHER -> {[kind |-> "throws", payload |-> Payload("", "")]}

\* prisma.user.upsert({where: {email}, update: {}, create: {...}}): the row
\* with that email as it is, or else the created row; "throws" when the
\* insert breaks a unique index.
Upsert(payload, digest) ==
  LET found == findUserByEmail(payload.email)
      row == UserRow(nextUserId, payload.name, payload.email, payload.email,
                     digest, payload.picture)
  IN IF found # {}
       THEN [kind |-> "found", row |-> CHOOSE u \in found : TRUE]
     ELSE IF UserUniqueViolation(row)
       THEN [kind |-> "throws", row |-> row]
     ELSE [kind |-> "created", row |-> row]

GoogleLogin(c) ==
  /\ rev = 2
  /\ Free(c)
  /\ \E t \in IdTokens : \E o \in VerifyOutcomes(t) :
     \E tempPassword \in TempPasswords : \E salt \in Salts :
       LET in == [id_token |-> t, ticket |-> o]
           r == Upsert(o.payload, bcryptHash(tempPassword, salt))
       IN CASE o.kind = "throws" ->
                 /\ BeginReply(c, "POST /google-login", in, 500,
                               ErrorBody("Erro no login com o Google"))
                 /\ UNCHANGED <<users, nextUserId>>
            [] o.kind = "nopayload" ->
                 /\ BeginReply(c, "POST /google-login", in, 400,
                               ErrorBody("Google login failed"))
                 /\ UNCHANGED <<users, nextUserId>>
            [] o.kind = "payload" /\ r.kind = "throws" ->
                 /\ BeginReply(c, "POST /google-login", in, 500,
                               ErrorBody("Erro no login com o Google"))
                 /\ UNCHANGED <<users, nextUserId>>
            [] o.kind = "payload" /\ r.kind = "found" ->
                 /\ BeginReply(c, "POST /google-login", in, 200, SessionReply(r.row))
                 /\ UNCHANGED <<users, nextUserId>>
            [] o.kind = "payload" /\ r.kind = "created" ->
                 /\ users' = users \cup {r.row}
                 /\ nextUserId' = nextUserId + 1
                 /\ BeginReply(c, "POST /google-login", in, 200, SessionReply(r.row))
  /\ UNCHANGED <<rev, properties, images, nextPropertyId>>

(***************************************************************************)
(* POST /property                                                          *)
(***************************************************************************)
PropertyBody(title, userId) ==
  [title |-> title, description |-> "desc", price |-> 250, latitude |-> 19,
   longitude |-> 43, userId |-> userId]

\* The same body with the images key the API table lists.
PropertyBodyWithImages(title, userId, urls) ==
  [title |-> title, description |-> "desc", price |-> 250, latitude |-> 19,
   longitude |-> 43, userId |-> userId, images |-> urls]

PropertyBodies ==
  {PropertyBody("Apto", u) : u \in UserIdInputs}
  \cup {PropertyBodyWithImages("Apto", u, <<UrlA, UrlB>>) : u \in UserIdInputs}
  \cup {PropertyBody("", 1)}

PropertyRow(id, b) ==
  [id |-> id, title |-> b.title, description |-> b.description, price |-> b.price,
   latitude |-> b.latitude, longitude |-> b.longitude, userId |-> b.userId]

PropertyReply(row) == [NoBody EXCEPT !.property = {row}]

\* Mutant: the handler does not look the user up before it creates.
PostPropertyStartNoLookup(c) ==
  /\ Free(c)
  /\ nextPropertyId <= MaxPropertyId
  /\ \E b \in PropertyBodies :
       IF ~propertySchema(b)
         THEN BeginReply(c, "POST /property", b, 400, ErrorBody("validation"))
       ELSE Begin(c, "POST /property", b, "create", NoArgs)
  /\ UNCHANGED <<rev, store>>

\* Mutant: the handler looks the user up before it validates the body.
PostPropertyStartLookupFirst(c) ==
  /\ Free(c)
  /\ nextPropertyId <= MaxPropertyId
  /\ \E b \in PropertyBodies :
       IF findUserById(b.userId) = {}
         THEN BeginReply(c, "POST /property", b, 404, ErrorBody("Usuario nao encontrado"))
       ELSE IF ~propertySchema(b)
         THEN BeginReply(c, "POST /property", b, 400, ErrorBody("validation"))
       ELSE Begin(c, "POST /property", b, "create", NoArgs)
  /\ UNCHANGED <<rev, store>>

PostPropertyStart(c) ==
  /\ Free(c)
  /\ nextPropertyId <= MaxPropertyId
  /\ \E b \in PropertyBodies :
       IF ~propertySchema(b)
         THEN BeginReply(c, "POST /property", b, 400, ErrorBody("validation"))
       ELSE IF findUserById(b.userId) = {}
         THEN BeginReply(c, "POST /property", b, 404, ErrorBody("Usuario nao encontrado"))
       ELSE Begin(c, "POST /property", b, "create", NoArgs)
  /\ UNCHANGED <<rev, store>>

PostPropertyCreate(c) ==
  /\ req[c].op = "POST /property"
  /\ req[c].pc = "create"
  /\ LET row == PropertyRow(nextPropertyId, req[c].in)
     IN IF PropertyFkViolation(row)
          THEN /\ Reply(c, 500, ErrorBody("Falha ao criar imovel"))
               /\ UNCHANGED <<properties, nextPropertyId>>
          ELSE /\ properties' = properties \cup {row}
               /\ nextPropertyId' = nextPropertyId + 1
               /\ Reply(c, 201, PropertyReply(row))
  /\ UNCHANGED <<rev, users, images, nextUserId>>

(***************************************************************************)
(* GET /property, GET /property/user, GET /imoveis/:id                     *)
(***************************************************************************)
ListReply(rows) == [NoBody EXCEPT !.properties = rows]

GetProperties(c) ==
  /\ Free(c)
  /\ BeginReply(c, "GET /property", NoArgs, 200, ListReply(findAllProperties))
  /\ UNCHANGED <<rev, store>>

GetPropertyUser(c) ==
  /\ rev = 1
  /\ Free(c)
  /\ \E q \in UserIdQueries :
       LET numericUserId == NumberOfQuery(q)
           in == [userId |-> q]
           imoveis == findPropertiesByUser(numericUserId.val)
       IN IF isNaN(numericUserId)
            THEN BeginReply(c, "GET /property/user", in, 400,
                            ErrorBody("UserId e obrigatorio e deve ser um numero"))
          ELSE IF Cardinality(imoveis) = 0
            THEN BeginReply(c, "GET /property/user", in, 404,
                            MessageBody("Nenhum imovel encontrado para este usuario"))
          ELSE BeginReply(c, "GET /property/user", in, 200, ListReply(imoveis))
  /\ UNCHANGED <<rev, store>>

GetImovel(c) ==
  /\ rev = 1
  /\ Free(c)
  /\ \E id \in IdParams :
       LET propertyId == Number(id)
           in == [id |-> id]
           found == {WithImages(p) : p \in findPropertyById(propertyId.val)}
       IN IF isNaN(propertyId)
            THEN BeginReply(c, "GET /imoveis/:id", in, 400,
                            ErrorBody("ID deve ser um numero valido"))
          ELSE IF found = {}
            THEN BeginReply(c, "GET /imoveis/:id", in, 404, ErrorBody("Imovel nao encontrado"))
          ELSE BeginReply(c, "GET /imoveis/:id", in, 200, ListReply(found))
  /\ UNCHANGED <<rev, store>>

(***************************************************************************)
(* PUT /property/:id (revision 1)                                          *)
(*                                                                         *)
(* The handler validates an object it builds from five of the body's       *)
(* fields; price is not among them.  What follows the validation is given  *)
(* in the same action: the lookup and the update are separate store calls  *)
(* in the code, and no request gets as far as either.                      *)
(***************************************************************************)
PutBodies ==
  {PropertyBody("Apto", 1), PropertyBodyWithImages("Apto", 1, <<UrlC>>), PropertyBody("", 1)}

\* The object handed to propertySchema.validate.
PutValidated(b) ==
  [title |-> b.title, description |-> b.description, latitude |-> b.latitude,
   longitude |-> b.longitude, userId |-> b.userId]

\* prisma.property.update({where: {id}, data: {title, description, latitude, longitude}}).
UpdatedProperty(p, b) ==
  [p EXCEPT !.title = b.title, !.description = b.description,
            !.latitude = b.latitude, !.longitude = b.longitude]

PutProperty(c) ==
  /\ rev = 1
  /\ Free(c)
  /\ \E id \in IdParams : \E b \in PutBodies :
       LET propertyId == Number(id)
           in == [id |-> id, body |-> b]
           existing == findPropertyById(propertyId.val)
       IN IF isNaN(propertyId)
            THEN /\ BeginReply(c, "PUT /property/:id", in, 400,
                               ErrorBody("ID do imovel deve ser um numero"))
                 /\ UNCHANGED properties
          ELSE IF ~propertySchema(PutValidated(b))
            THEN /\ BeginReply(c, "PUT /property/:id", in, 400, ErrorBody("validation"))
                 /\ UNCHANGED properties
          ELSE IF existing = {}
            THEN /\ BeginReply(c, "PUT /property/:id", in, 404,
                               ErrorBody("Imovel nao encontrado"))
                 /\ UNCHANGED properties
          ELSE /\ properties' = {IF p.id = propertyId.val THEN UpdatedProperty(p, b) ELSE p :
                                   p \in properties}
               /\ BeginReply(c, "PUT /property/:id", in, 200,
                             ListReply({[q EXCEPT !.title = b.title,
                                                  !.description = b.description,
                                                  !.latitude = b.latitude,
                                                  !.longitude = b.longitude] :
                                          q \in {WithImages(p) : p \in existing}}))
  /\ UNCHANGED <<rev, users, images, nextUserId, nextPropertyId>>

(***************************************************************************)
(* DELETE /property/:id                                                    *)
(***************************************************************************)
DeleteStart(c) ==
  /\ Free(c)
  /\ \E id \in IdParams :
       LET propertyId == Number(id)
           in == [id |-> id]
           existingProperty == {WithImages(p) : p \in findPropertyById(propertyId.val)}
       IN IF isNaN(propertyId)
            THEN BeginReply(c, "DELETE /property/:id", in, 400,
                            ErrorBody("ID do imovel deve ser um numero valido"))
          ELSE IF existingProperty = {}
            THEN BeginReply(c, "DELETE /property/:id", in, 404,
                            ErrorBody("Imovel nao encontrado"))
          ELSE Begin(c, "DELETE /property/:id", in, "deleteMany",
                     [propertyId |-> propertyId.val,
                      existingProperty |-> CHOOSE p \in existingProperty : TRUE])
  /\ UNCHANGED <<rev, store>>

\* Mutant: the first store call removes the Property row, its images still
\* stored, on a store without Image_propertyId_fkey to refuse it.
DeleteImagesRemovesProperty(c) ==
  /\ req[c].op = "DELETE /property/:id"
  /\ req[c].pc = "deleteMany"
  /\ properties' = {p \in properties : p.id # req[c].loc.propertyId}
  /\ Goto(c, "delete")
  /\ UNCHANGED <<rev, users, images, nextUserId, nextPropertyId>>

\* prisma.image.deleteMany({where: {propertyId}})
DeleteImages(c) ==
  /\ req[c].op = "DELETE /property/:id"
  /\ req[c].pc = "deleteMany"
  /\ images' = {i \in images : i.propertyId # req[c].loc.propertyId}
  /\ Goto(c, "delete")
  /\ UNCHANGED <<rev, users, properties, nextUserId, nextPropertyId>>

\* The second delete.  Revision 1 calls prisma.image.delete({where: {id:
\* propertyId}}): it removes the Image whose id is the property's id, and
\* throws when there is none.  Revision 2 calls prisma.property.delete.
DeleteRow(c) ==
  /\ req[c].op = "DELETE /property/:id"
  /\ req[c].pc = "delete"
  /\ LET propertyId == req[c].loc.propertyId
     IN IF rev = 1
          THEN IF \E i \in images : i.id = propertyId
                 THEN /\ images' = {i \in images : i.id # propertyId}
                      /\ UNCHANGED properties
                      /\ Reply(c, 200, MessageBody("Imovel deletado com sucesso"))
                 ELSE /\ UNCHANGED <<images, properties>>
                      /\ Reply(c, 500, ErrorBody("Falha ao deletar imovel"))
          ELSE IF findPropertyById(propertyId) = {} \/ PropertyDeleteRestricted(propertyId)
                 THEN /\ UNCHANGED <<images, properties>>
                      /\ Reply(c, 500, ErrorBody("Falha ao deletar imovel"))
                 ELSE /\ properties' = {p \in properties : p.id # propertyId}
                      /\ UNCHANGED images
                      /\ Reply(c, 200, MessageBody("Imovel deletado com sucesso"))
  /\ UNCHANGED <<rev, users, nextUserId, nextPropertyId>>

(***************************************************************************)
(* The store the server is started on: any content the schema admits, here *)
(* empty, or the user ana with up to two properties and up to two images.  *)
(***************************************************************************)
SeedUser == UserRow(1, "Ana", "ana@x.com", "ana", bcryptHash("secret1", 1), "")
SeedPropertyIds == {1, 2}
SeedImageIds == {1, 2}
SeedUrl(i) == IF i = 1 THEN UrlA ELSE UrlB
SeedProperty(p) ==
  [id |-> p, title |-> "Casa", description |-> "desc", price |-> 100,
   latitude |-> 0, longitude |-> 0, userId |-> 1]

InitRequests ==
  /\ rev \in {1, 2}
  /\ req = [c \in Clients |-> Idle]
  /\ reply = NoReply

EmptyStore ==
  /\ users = {}
  /\ properties = {}
  /\ images = {}
  /\ nextUserId = 1
  /\ nextPropertyId = 1

SeededStore(PropertyIds) ==
  \E P \in SUBSET PropertyIds : \E f \in [SeedImageIds -> P \cup {0}] :
    /\ users = {SeedUser}
    /\ properties = {SeedProperty(p) : p \in P}
    /\ images = {[id |-> i, url |-> SeedUrl(i), propertyId |-> f[i]] :
                   i \in {j \in SeedImageIds : f[j] # 0}}
    /\ nextUserId = 2
    /\ nextPropertyId = IF P = {} THEN 1 ELSE 3

Init == InitRequests /\ (EmptyStore \/ SeededStore(SeedPropertyIds))

UserStep(c) ==
  \/ PostUsersStart(c, RegisterBodies)
  \/ PostUsersFindEmail(c)
  \/ PostUsersCreate(c)
  \/ PostSession(c)
  \/ GetUser(c)
  \/ GoogleLogin(c)

PropertyStep(c) ==
  \/ PostPropertyStart(c)
  \/ PostPropertyCreate(c)
  \/ GetProperties(c)
  \/ GetPropertyUser(c)
  \/ GetImovel(c)
  \/ PutProperty(c)
  \/ DeleteStart(c)
  \/ DeleteImages(c)
  \/ DeleteRow(c)

\* The whole service.  The account handlers touch the User table only and
\* the property handlers only read it, so the properties below are checked
\* under the specifications of the two groups of handlers that follow.
Next == \E c \in Clients : UserStep(c) \/ PropertyStep(c)

Spec == Init /\ [][Next]_vars

(***************************************************************************)
(* The account handlers alone, on a store without properties.  They read   *)
(* and write the User table only.                                          *)
(***************************************************************************)
InitUsers == InitRequests /\ (EmptyStore \/ SeededStore({}))

NextUsers == \E c \in Clients : UserStep(c)

SpecUsers == InitUsers /\ [][NextUsers]_vars

(***************************************************************************)
(* Registration alone, from the empty store and with one request at a      *)
(* time: a request starts only when no other is in flight.  Every row was  *)
(* then inserted by an earlier POST /users that had replied 201.           *)
(***************************************************************************)
InitEmpty == InitRequests /\ EmptyStore

RegisterStep(c) ==
  \/ PostUsersStart(c, RegisterBodies)
  \/ PostUsersFindEmail(c)
  \/ PostUsersCreate(c)

NextRegisterSeq ==
  \E c \in Clients : (\A d \in Clients \ {c} : Free(d)) /\ RegisterStep(c)

SpecRegisterSeq == InitEmpty /\ [][NextRegisterSeq]_vars

\* Registration alone from the empty store, the requests interleaved at
\* their awaits.
NextRegister == \E c \in Clients : RegisterStep(c)

SpecRegister == InitEmpty /\ [][NextRegister]_vars

(***************************************************************************)
(* The property handlers, with the registration of one more user, whose id *)
(* the property bodies may name.  The property handlers read the User      *)
(* table and write the Property and Image tables.                          *)
(***************************************************************************)
OneRegisterBody == {RegisterBody("Ana", "bob@x.com", "bob@x.com", "secret1")}

PropertiesStep(c) ==
  \/ PostUsersStart(c, OneRegisterBody)
  \/ PostUsersFindEmail(c)
  \/ PostUsersCreate(c)
  \/ PropertyStep(c)

NextProperties == \E c \in Clients : PropertiesStep(c)

SpecProperties == Init /\ [][NextProperties]_vars

\* The same with one request at a time.
NextPropertiesSeq ==
  \E c \in Clients : (\A d \in Clients \ {c} : Free(d)) /\ PropertiesStep(c)

SpecPropertiesSeq == Init /\ [][NextPropertiesSeq]_vars

(***************************************************************************)
(* The handlers that write the Property and Image tables (create, update,  *)
(* delete), interleaved at their awaits.  The User table stays as Init set *)
(* it: no handler removes a User row or changes its id.                    *)
(***************************************************************************)
WriteStep(c) ==
  \/ PostPropertyStart(c)
  \/ PostPropertyCreate(c)
  \/ PutProperty(c)
  \/ DeleteStart(c)
  \/ DeleteImages(c)
  \/ DeleteRow(c)

NextWrites == \E c \in Clients : WriteStep(c)

SpecWrites == Init /\ [][NextWrites]_vars

(***************************************************************************)
(* The handlers that take a body, one request at a time.                   *)
(***************************************************************************)
BodyStep(c) ==
  \/ PostUsersStart(c, RegisterBodies)
  \/ PostUsersFindEmail(c)
  \/ PostUsersCreate(c)
  \/ PostSession(c)
  \/ PostPropertyStart(c)
  \/ PostPropertyCreate(c)
  \/ PutProperty(c)

NextBodies ==
  \E c \in Clients : (\A d \in Clients \ {c} : Free(d)) /\ BodyStep(c)

SpecBodies == Init /\ [][NextBodies]_vars

(***************************************************************************)
(* Properties                                                              *)
(***************************************************************************)
Sent(op) == reply' # reply /\ reply'.op = op

SharesIdentity(u, b) == u.username = b.username \/ u.email = b.email

\* C1: with one request at a time, a schema-valid POST /users is answered
\* 201 and adds exactly one row when no row has its username or its email,
\* and is answered 409 and adds nothing when some row has (the second of two
\* registrations that share a username or an email).
C1_SecondRegistrationConflicts ==
  [][Sent("POST /users") /\ registerSchema(rev, reply'.in) =>
       LET b == reply'.in
       IN IF \E u \in users : SharesIdentity(u, b)
            THEN reply'.status = 409 /\ users' = users
            ELSE /\ reply'.status = 201
                 /\ Cardinality({u \in users' : SharesIdentity(u, b)}) = 1]_vars

\* C2: a schema-valid POST /session is answered 200 exactly when a user has
\* the username and registered the password sent, and otherwise with the
\* one 401 "Invalid username or password" reply.
C2_LoginIffRegisteredPassword ==
  [][Sent("POST /session") /\ loginSchema(reply'.in) =>
       LET b == reply'.in
           registered == \E u \in users : u.username = b.username /\ u.password.of = b.password
       IN /\ reply'.status = 200 <=> registered
          /\ ~registered => /\ reply'.status = 401
                            /\ reply'.body = ErrorBody("Invalid username or password")]_vars

\* C3: no reply carries a user's password digest: every user in a reply
\* body is a projection of the row without its password field.
C3_NoDigestInReplies ==
  \A u \in reply.body.user : "password" \notin DOMAIN u

DeleteSteps(c) ==
  /\ req[c].op = "DELETE /property/:id"
  /\ req[c].pc # "idle"
  /\ req'[c] # req[c]

\* C5: the store calls of a DELETE /property/:id leave every Property row
\* but that of the id, and every Image row but those of that property, as
\* they were; and when the handler replies 200 the store holds neither the
\* Property row of the id nor an Image row of that property.
C5_DeleteRemovesPropertyAndImages ==
  [][\A c \in Clients : DeleteSteps(c) =>
       LET id == req[c].loc.propertyId
       IN /\ {p \in properties' : p.id # id} = {p \in properties : p.id # id}
          /\ {i \in images' : i.propertyId # id} = {i \in images : i.propertyId # id}
          /\ req'[c].pc = "idle" /\ reply'.status = 200 =>
               /\ \A p \in properties' : p.id # id
               /\ \A i \in images' : i.propertyId # id]_vars

\* C6: no state has a property that still exists while the images a DELETE
\* found it with have all been removed.
C6_DeleteAtomic ==
  \A c \in Clients :
    req[c].op = "DELETE /property/:id" =>
      LET existingProperty == req[c].loc.existingProperty
      IN ~ /\ findPropertyById(existingProperty.id) # {}
           /\ existingProperty.images # {}
           /\ existingProperty.images \cap images = {}

Range(seq) == {seq[k] : k \in DOMAIN seq}

\* A body the API table accepts: the schema's six fields and an images list.
CarriesImages(b) ==
  /\ DOMAIN b = PropertyKeys \cup {"images"}
  /\ JoiString(b.title)
  /\ JoiString(b.description)

ImageUrlsOf(table, id) == {i.url : i \in {j \in table : j.propertyId = id}}

\* C7: a POST /property carrying images [a,b] for an existing user is
\* answered 201 and the created property is then fetched with the image set
\* {a,b}; a PUT /property/:id carrying images [c] for an existing property
\* is answered 200 and the property is then fetched with the image set {c}.
C7_ImageSetRoundTrip ==
  [][/\ Sent("POST /property") /\ CarriesImages(reply'.in)
          /\ findUserById(reply'.in.userId) # {} =>
          /\ reply'.status = 201
          /\ \A p \in reply'.body.property : ImageUrlsOf(images', p.id) = Range(reply'.in.images)
     /\ Sent("PUT /property/:id") /\ CarriesImages(reply'.in.body)
          /\ findPropertyById(Number(reply'.in.id).val) # {} =>
          /\ reply'.status = 200
          /\ ImageUrlsOf(images', Number(reply'.in.id).val) = Range(reply'.in.body.images)]_vars

\* C8: PUT /property/:id with a numeric id and a body holding the six
\* fields is answered 200 when the property exists, and the stored title,
\* description, latitude, longitude and price are then the body's; it is
\* answered 404 and changes nothing when no property has the id.
C8_PutUpdatesScalars ==
  [][Sent("PUT /property/:id") /\ ~isNaN(Number(reply'.in.id))
       /\ propertySchema(reply'.in.body) =>
       LET id == Number(reply'.in.id).val
           b == reply'.in.body
       IN IF findPropertyById(id) # {}
            THEN /\ reply'.status = 200
                 /\ \A p \in properties' :
                      p.id = id => /\ p.title = b.title
                                   /\ p.description = b.description
                                   /\ p.latitude = b.latitude
                                   /\ p.longitude = b.longitude
                                   /\ p.price = b.price
            ELSE /\ reply'.status = 404
                 /\ UNCHANGED store]_vars

\* The query strings that are numerals.
Numerals == {"1", "2", "3"}

\* C9: GET /property/user is answered 400 when userId is missing or is not
\* a numeral; with a numeral u it is answered 404 when no property has
\* userId = u and otherwise 200 with exactly the properties that have, each
\* with its images.
C9_ListByOwner ==
  [][Sent("GET /property/user") =>
       LET q == reply'.in.userId
       IN IF q = <<>> \/ q[1] \notin Numerals
            THEN reply'.status = 400
            ELSE LET u == Number(q[1]).val
                     owned == {p \in properties : p.userId = u}
                 IN IF owned = {}
                      THEN reply'.status = 404
                      ELSE /\ reply'.status = 200
                           /\ reply'.body.properties = {WithImages(p) : p \in owned}]_vars

UniqueUsers ==
  \A u, v \in users : (u.email = v.email \/ u.username = v.username) => u = v

\* C10: no two User rows share an email or a username, and no step changes
\* or removes a row that exists.
C10_UsersUnique ==
  /\ []UniqueUsers
  /\ [][\A u \in users : u \in users']_vars

\* A registration was refused by the unique index and both rows stand.
C10_Witness ==
  /\ reply.op = "POST /users"
  /\ reply.status = 500
  /\ Cardinality(users) = 2
  /\ \E u \in users : SharesIdentity(u, reply.in)

\* C11: in every state every Property row's userId is the id of a User row
\* and every Image row's propertyId is the id of a Property row.
C11_ReferentialIntegrity ==
  /\ \A p \in properties : findUserById(p.userId) # {}
  /\ \A i \in images : findPropertyById(i.propertyId) # {}

\* A DELETE has removed a property and its images, a POST /property has
\* created one, and images of another property are still stored.
C11_Witness ==
  /\ reply.op = "DELETE /property/:id"
  /\ reply.status = 200
  /\ findPropertyById(Number(reply.in.id).val) = {}
  /\ \E p \in properties : p.id \notin SeedPropertyIds
  /\ images # {}

\* The body sent to a handler that takes one is refused by the schema the
\* handler validates bodies of that operation against.
ViolatesSchema(r, op, in) ==
  CASE op = "POST /users" -> ~registerSchema(r, in)
    [] op = "POST /session" -> ~loginSchema(in)
    [] op = "POST /property" -> ~propertySchema(in)
    [] op = "PUT /property/:id" -> ~propertySchema(in.body)
    [] OTHER -> FALSE

C13_GoogleLoginUpserts ==
  [][Sent("POST /google-login") =>
       LET ticket == reply'.in.ticket
           e == ticket.payload.email
       IN IF ticket.kind = "payload"
            THEN /\ reply'.status = 200
                 /\ IF findUserByEmail(e) # {}
                      THEN /\ UNCHANGED store
                           /\ reply'.body.user = findUserByEmail(e)
                      ELSE /\ UNCHANGED <<properties, images>>
                           /\ \E u \in users' \ users :
                                /\ users' = users \cup {u}
                                /\ u.email = e
                                /\ reply'.body.user = {u}
            ELSE /\ users' = users
                 /\ reply'.status # 200]_vars

\* C14: a schema-valid POST /users that replies when a row already has its
\* username (the other of two such requests in flight together has been
\* answered 201) is answered 409 and adds nothing; the conflict is not
\* reported as 500.
C14_RaceAnswered409 ==
  [][Sent("POST /users") /\ registerSchema(rev, reply'.in)
       /\ findUserByUsername(reply'.in.username) # {} =>
       /\ reply'.status = 409
       /\ users' = users]_vars

====
